---- MODULE Spec2Model ----
(***************************************************************************)
(* Model of azul-css/src/css_properties.rs: the CSS property key tables,   *)
(* the CssPropertyType classification predicates, the CssProperty          *)
(* constructors with get_type(), and the quantized FloatValue.             *)
(*                                                                         *)
(* Every operation of the crate is a pure function.  The state is the      *)
(* CssKeyMap the caller holds, the value the caller is given (drawn       *)
(* from a bounded set in Init) and the last call made (operation,          *)
(* argument, result); each action applies one function of the source to    *)
(* the input or to the result of the call before it.                       *)
(*                                                                         *)
(* Strings are sequences of tokens: a token is one whitespace character    *)
(* or a maximal run of non-whitespace characters (a word).  Every table    *)
(* key is a single word, so str::trim and BTreeMap::get are modelled       *)
(* exactly on this representation.                                         *)
(*                                                                         *)
(* f32 values are exact rationals [n |-> numerator, d |-> denominator],    *)
(* d > 0; the binary rounding of f32 arithmetic is not modelled.           *)
(*                                                                         *)
(* The C API of azul-dll/src/lib.rs is a state machine over the heap: the  *)
(* allocations made by its constructors (heap), the handles its callers    *)
(* hold (handles) and the undefined behaviour hit so far (ub).             *)
(***************************************************************************)
EXTENDS Integers, Sequences, FiniteSets, TLC

VARIABLES map, given, op, arg, res, heap, handles, ub

vars == <<map, given, op, arg, res, heap, handles, ub>>

\* the state of the C API: the allocations made, the handles handed out and
\* the undefined behaviour hit
api == <<heap, handles, ub>>

(* ----------------------------- bounds ---------------------------------- *)

\* longest run of whitespace put before and after a key
MaxPad == 2

\* f32 inputs are n / InputDen for n in -MaxNum .. MaxNum
MaxNum == 40

\* lengths and angles are k * 0.125 for k in -MaxUnit .. MaxUnit
MaxUnit == 6

\* ColorF channels run from MaxChan / 510 below 0.0 to MaxChan / 510 above 1.0
MaxChan == 4

\* rectangle origins lie in -MaxCoord .. MaxCoord on both axes
MaxCoord == 1

\* rectangle widths and heights go up to MaxSize
MaxSize == 2

\* union takes up to MaxRects rectangles
MaxRects == 2

\* the const constructors take whole numbers in -MaxWhole .. MaxWhole
MaxWhole == 3

\* the C API makes up to MaxAllocs allocations, held by up to MaxHandles
\* handles
MaxAllocs == 2

MaxHandles == 3

\* gradient angles are k quarter turns for k in -MaxQuarter .. MaxQuarter
MaxQuarter == 3

InputDen == 10000

(* --------------------------- key tables -------------------------------- *)

COMBINED_CSS_PROPERTIES_KEY_MAP ==
  << <<"BorderRadius", "border-radius">>,
     <<"Overflow", "overflow">>,
     <<"Padding", "padding">>,
     <<"Margin", "margin">>,
     <<"Border", "border">>,
     <<"BorderLeft", "border-left">>,
     <<"BorderRight", "border-right">>,
     <<"BorderTop", "border-top">>,
     <<"BorderBottom", "border-bottom">>,
     <<"BoxShadow", "box-shadow">> >>

CSS_PROPERTY_KEY_MAP ==
  << <<"Display", "display">>,
     <<"Float", "float">>,
     <<"BoxSizing", "box-sizing">>,
     <<"TextColor", "color">>,
     <<"FontSize", "font-size">>,
     <<"FontFamily", "font-family">>,
     <<"TextAlign", "text-align">>,
     <<"LetterSpacing", "letter-spacing">>,
     <<"LineHeight", "line-height">>,
     <<"WordSpacing", "word-spacing">>,
     <<"TabWidth", "tab-width">>,
     <<"Cursor", "cursor">>,
     <<"Width", "width">>,
     <<"Height", "height">>,
     <<"MinWidth", "min-width">>,
     <<"MinHeight", "min-height">>,
     <<"MaxWidth", "max-width">>,
     <<"MaxHeight", "max-height">>,
     <<"Position", "position">>,
     <<"Top", "top">>,
     <<"Right", "right">>,
     <<"Left", "left">>,
     <<"Bottom", "bottom">>,
     <<"FlexWrap", "flex-wrap">>,
     <<"FlexDirection", "flex-direction">>,
     <<"FlexGrow", "flex-grow">>,
     <<"FlexShrink", "flex-shrink">>,
     <<"JustifyContent", "justify-content">>,
     <<"AlignItems", "align-items">>,
     <<"AlignContent", "align-content">>,
     <<"OverflowX", "overflow-x">>,
     <<"OverflowY", "overflow-y">>,
     <<"PaddingTop", "padding-top">>,
     <<"PaddingLeft", "padding-left">>,
     <<"PaddingRight", "padding-right">>,
     <<"PaddingBottom", "padding-bottom">>,
     <<"MarginTop", "margin-top">>,
     <<"MarginLeft", "margin-left">>,
     <<"MarginRight", "margin-right">>,
     <<"MarginBottom", "margin-bottom">>,
     <<"Background", "background">>,
     <<"BackgroundImage", "background-image">>,
     <<"BackgroundColor", "background-color">>,
     <<"BackgroundPosition", "background-position">>,
     <<"BackgroundSize", "background-size">>,
     <<"BackgroundRepeat", "background-repeat">>,
     <<"BorderTopLeftRadius", "border-top-left-radius">>,
     <<"BorderTopRightRadius", "border-top-right-radius">>,
     <<"BorderBottomLeftRadius", "border-bottom-left-radius">>,
     <<"BorderBottomRightRadius", "border-bottom-right-radius">>,
     <<"BorderTopColor", "border-top-color">>,
     <<"BorderRightColor", "border-right-color">>,
     <<"BorderLeftColor", "border-left-color">>,
     <<"BorderBottomColor", "border-bottom-color">>,
     <<"BorderTopStyle", "border-top-style">>,
     <<"BorderRightStyle", "border-right-style">>,
     <<"BorderLeftStyle", "border-left-style">>,
     <<"BorderBottomStyle", "border-bottom-style">>,
     <<"BorderTopWidth", "border-top-width">>,
     <<"BorderRightWidth", "border-right-width">>,
     <<"BorderLeftWidth", "border-left-width">>,
     <<"BorderBottomWidth", "border-bottom-width">>,
     <<"BoxShadowTop", "box-shadow-top">>,
     <<"BoxShadowRight", "box-shadow-right">>,
     <<"BoxShadowLeft", "box-shadow-left">>,
     <<"BoxShadowBottom", "box-shadow-bottom">>,
     <<"ScrollbarStyle", "scrollbar-style">>,
     <<"Opacity", "opacity">>,
     <<"Transform", "transform">>,
     <<"PerspectiveOrigin", "perspective-origin">>,
     <<"TransformOrigin", "transform-origin">>,
     <<"BackfaceVisibility", "backface-visibility">> >>

CombinedCssPropertyType ==
  { "BorderRadius", "Overflow", "Margin", "Border", "BorderLeft",
    "BorderRight", "BorderTop", "BorderBottom", "Padding", "BoxShadow" }

CssPropertyType ==
  { "TextColor", "FontSize", "FontFamily", "TextAlign", "LetterSpacing",
    "LineHeight", "WordSpacing", "TabWidth", "Cursor", "Display", "Float",
    "BoxSizing", "Width", "Height", "MinWidth", "MinHeight", "MaxWidth",
    "MaxHeight", "Position", "Top", "Right", "Left", "Bottom", "FlexWrap",
    "FlexDirection", "FlexGrow", "FlexShrink", "JustifyContent",
    "AlignItems", "AlignContent", "OverflowX", "OverflowY", "PaddingTop",
    "PaddingLeft", "PaddingRight", "PaddingBottom", "MarginTop",
    "MarginLeft", "MarginRight", "MarginBottom", "Background",
    "BackgroundImage", "BackgroundColor", "BackgroundPosition",
    "BackgroundSize", "BackgroundRepeat", "BorderTopLeftRadius",
    "BorderTopRightRadius", "BorderBottomLeftRadius",
    "BorderBottomRightRadius", "BorderTopColor", "BorderRightColor",
    "BorderLeftColor", "BorderBottomColor", "BorderTopStyle",
    "BorderRightStyle", "BorderLeftStyle", "BorderBottomStyle",
    "BorderTopWidth", "BorderRightWidth", "BorderLeftWidth",
    "BorderBottomWidth", "BoxShadowLeft", "BoxShadowRight", "BoxShadowTop",
    "BoxShadowBottom", "ScrollbarStyle", "Opacity", "Transform",
    "PerspectiveOrigin", "TransformOrigin", "BackfaceVisibility" }

CssPropertyVariant ==
  { "TextColor", "FontSize", "FontFamily", "TextAlign", "LetterSpacing",
    "LineHeight", "WordSpacing", "TabWidth", "Cursor", "Display", "Float",
    "BoxSizing", "Width", "Height", "MinWidth", "MinHeight", "MaxWidth",
    "MaxHeight", "Position", "Top", "Right", "Left", "Bottom", "FlexWrap",
    "FlexDirection", "FlexGrow", "FlexShrink", "JustifyContent",
    "AlignItems", "AlignContent", "BackgroundContent", "BackgroundPosition",
    "BackgroundSize", "BackgroundRepeat", "OverflowX", "OverflowY",
    "PaddingTop", "PaddingLeft", "PaddingRight", "PaddingBottom",
    "MarginTop", "MarginLeft", "MarginRight", "MarginBottom",
    "BorderTopLeftRadius", "BorderTopRightRadius", "BorderBottomLeftRadius",
    "BorderBottomRightRadius", "BorderTopColor", "BorderRightColor",
    "BorderLeftColor", "BorderBottomColor", "BorderTopStyle",
    "BorderRightStyle", "BorderLeftStyle", "BorderBottomStyle",
    "BorderTopWidth", "BorderRightWidth", "BorderLeftWidth",
    "BorderBottomWidth", "BoxShadowLeft", "BoxShadowRight", "BoxShadowTop",
    "BoxShadowBottom", "ScrollbarStyle", "Opacity", "Transform",
    "TransformOrigin", "PerspectiveOrigin", "BackfaceVisibility" }

(* ------------------------ strings and options -------------------------- *)

\* whitespace characters, each its own token
Whitespace == { " ", "\n" }

\* the &'static str literal of a table key: one word
Lit(k) == << k >>

\* Option<T>
None == << >>

Some(x) == << x >>

\* Option::unwrap: the value, or a panic
Unwrap(o) ==
  IF o = None THEN [panic |-> TRUE, val |-> << >>]
  ELSE [panic |-> FALSE, val |-> o[1]]

RECURSIVE trim_start(_)
trim_start(s) ==
  IF s = << >> \/ Head(s) \notin Whitespace THEN s
  ELSE trim_start(Tail(s))

RECURSIVE trim_end(_)
trim_end(s) ==
  IF s = << >> \/ s[Len(s)] \notin Whitespace THEN s
  ELSE trim_end(SubSeq(s, 1, Len(s) - 1))

\* str::trim
trim(s) == trim_end(trim_start(s))

(* ----------------------------- CssKeyMap ------------------------------- *)

\* BTreeMap::get
get(m, k) == IF k \in DOMAIN m THEN Some(m[k]) ELSE None

\* .iter().map(|(v, k)| (*k, *v)).collect() into a BTreeMap: one entry per
\* distinct key; of several array entries with one key the last one stays
collect(iter) ==
  LET key(i) == Lit(iter[i][2])
      last(k) == CHOOSE i \in DOMAIN iter :
                   /\ key(i) = k
                   /\ \A j \in DOMAIN iter : key(j) = k => j <= i
  IN  [k \in { key(i) : i \in DOMAIN iter } |-> iter[last(k)][1]]

\* the state before the caller has obtained a map
NoMap == [non_shorthands |-> << >>, shorthands |-> << >>]

get_css_key_map_same_table ==
  [non_shorthands |-> collect(CSS_PROPERTY_KEY_MAP),
   shorthands     |-> collect(CSS_PROPERTY_KEY_MAP)]

get_css_key_map ==
  [non_shorthands |-> collect(CSS_PROPERTY_KEY_MAP),
   shorthands     |-> collect(COMBINED_CSS_PROPERTIES_KEY_MAP)]

\* map.iter().find(|(_, v)| *v == self): the first entry, in key order,
\* whose value is self.  Key order is not modelled; the entry is unique
\* whenever FindCount is 1.
find(m, self) ==
  LET ks == { k \in DOMAIN m : m[k] = self }
  IN  IF ks = {} THEN None ELSE Some(CHOOSE k \in ks : TRUE)

(* ----------------------- CombinedCssPropertyType ----------------------- *)

CombinedCssPropertyType_from_str(input, m) ==
  get(m.shorthands, trim(input))

CombinedCssPropertyType_to_str(self, m) ==
  Unwrap(find(m.shorthands, self))

(* --------------------------- CssPropertyType --------------------------- *)

CssPropertyType_from_str_untrimmed(input, m) ==
  get(m.non_shorthands, input)

CssPropertyType_from_str(input, m) ==
  get(m.non_shorthands, trim(input))

CssPropertyType_to_str_shorthands(self, m) ==
  Unwrap(find(m.shorthands, self))

CssPropertyType_to_str(self, m) ==
  Unwrap(find(m.non_shorthands, self))

is_inheritable_no_text_align(self) ==
  self \in { "TextColor", "FontFamily", "FontSize", "LineHeight" }

is_inheritable(self) ==
  self \in { "TextColor", "FontFamily", "FontSize", "LineHeight",
             "TextAlign" }

can_trigger_relayout(self) ==
  ~ (self \in { "TextColor", "Cursor", "Background", "BackgroundPosition",
             "BackgroundSize", "BackgroundRepeat", "BackgroundImage",
             "BorderTopLeftRadius", "BorderTopRightRadius",
             "BorderBottomLeftRadius", "BorderBottomRightRadius",
             "BorderTopColor", "BorderRightColor", "BorderLeftColor",
             "BorderBottomColor", "BorderTopStyle", "BorderRightStyle",
             "BorderLeftStyle", "BorderBottomStyle", "BoxShadowLeft",
             "BoxShadowRight", "BoxShadowTop", "BoxShadowBottom" })

is_gpu_only_property_origin(self) ==
  self \in { "Opacity", "Transform", "TransformOrigin" }

is_gpu_only_property(self) ==
  self \in { "Opacity", "Transform" }

(* ----------------------------- CssProperty ----------------------------- *)

\* the tags of CssPropertyValue<T>; the payload of Exact is not modelled
CssPropertyValue == { "None", "Auto", "Initial", "Inherit", "Exact" }

\* a CssProperty: the active variant and the tag of the value it wraps
CssProperty == [variant : CssPropertyVariant, value : CssPropertyValue]

css_property_from_type(prop_type, content_type) ==
  CASE prop_type = "TextColor" -> [variant |-> "TextColor", value |-> content_type]
    [] prop_type = "FontSize" -> [variant |-> "FontSize", value |-> content_type]
    [] prop_type = "FontFamily" -> [variant |-> "FontFamily", value |-> content_type]
    [] prop_type = "TextAlign" -> [variant |-> "TextAlign", value |-> content_type]
    [] prop_type = "LetterSpacing" -> [variant |-> "LetterSpacing", value |-> content_type]
    [] prop_type = "LineHeight" -> [variant |-> "LineHeight", value |-> content_type]
    [] prop_type = "WordSpacing" -> [variant |-> "WordSpacing", value |-> content_type]
    [] prop_type = "TabWidth" -> [variant |-> "TabWidth", value |-> content_type]
    [] prop_type = "Cursor" -> [variant |-> "Cursor", value |-> content_type]
    [] prop_type = "Display" -> [variant |-> "Display", value |-> content_type]
    [] prop_type = "Float" -> [variant |-> "Float", value |-> content_type]
    [] prop_type = "BoxSizing" -> [variant |-> "BoxSizing", value |-> content_type]
    [] prop_type = "Width" -> [variant |-> "Width", value |-> content_type]
    [] prop_type = "Height" -> [variant |-> "Height", value |-> content_type]
    [] prop_type = "MinWidth" -> [variant |-> "MinWidth", value |-> content_type]
    [] prop_type = "MinHeight" -> [variant |-> "MinHeight", value |-> content_type]
    [] prop_type = "MaxWidth" -> [variant |-> "MaxWidth", value |-> content_type]
    [] prop_type = "MaxHeight" -> [variant |-> "MaxHeight", value |-> content_type]
    [] prop_type = "Position" -> [variant |-> "Position", value |-> content_type]
    [] prop_type = "Top" -> [variant |-> "Top", value |-> content_type]
    [] prop_type = "Right" -> [variant |-> "Right", value |-> content_type]
    [] prop_type = "Left" -> [variant |-> "Left", value |-> content_type]
    [] prop_type = "Bottom" -> [variant |-> "Bottom", value |-> content_type]
    [] prop_type = "FlexWrap" -> [variant |-> "FlexWrap", value |-> content_type]
    [] prop_type = "FlexDirection" -> [variant |-> "FlexDirection", value |-> content_type]
    [] prop_type = "FlexGrow" -> [variant |-> "FlexGrow", value |-> content_type]
    [] prop_type = "FlexShrink" -> [variant |-> "FlexShrink", value |-> content_type]
    [] prop_type = "JustifyContent" -> [variant |-> "JustifyContent", value |-> content_type]
    [] prop_type = "AlignItems" -> [variant |-> "AlignItems", value |-> content_type]
    [] prop_type = "AlignContent" -> [variant |-> "AlignContent", value |-> content_type]
    [] prop_type = "OverflowX" -> [variant |-> "OverflowX", value |-> content_type]
    [] prop_type = "OverflowY" -> [variant |-> "OverflowY", value |-> content_type]
    [] prop_type = "PaddingTop" -> [variant |-> "PaddingTop", value |-> content_type]
    [] prop_type = "PaddingLeft" -> [variant |-> "PaddingLeft", value |-> content_type]
    [] prop_type = "PaddingRight" -> [variant |-> "PaddingRight", value |-> content_type]
    [] prop_type = "PaddingBottom" -> [variant |-> "PaddingBottom", value |-> content_type]
    [] prop_type = "MarginTop" -> [variant |-> "MarginTop", value |-> content_type]
    [] prop_type = "MarginLeft" -> [variant |-> "MarginLeft", value |-> content_type]
    [] prop_type = "MarginRight" -> [variant |-> "MarginRight", value |-> content_type]
    [] prop_type = "MarginBottom" -> [variant |-> "MarginBottom", value |-> content_type]
    [] prop_type = "Background" -> [variant |-> "BackgroundContent", value |-> content_type]
    [] prop_type = "BackgroundImage" -> [variant |-> "BackgroundContent", value |-> content_type]
    [] prop_type = "BackgroundColor" -> [variant |-> "BackgroundContent", value |-> content_type]
    [] prop_type = "BackgroundPosition" -> [variant |-> "BackgroundPosition", value |-> content_type]
    [] prop_type = "BackgroundSize" -> [variant |-> "BackgroundSize", value |-> content_type]
    [] prop_type = "BackgroundRepeat" -> [variant |-> "BackgroundRepeat", value |-> content_type]
    [] prop_type = "BorderTopLeftRadius" -> [variant |-> "BorderTopLeftRadius", value |-> content_type]
    [] prop_type = "BorderTopRightRadius" -> [variant |-> "BorderTopRightRadius", value |-> content_type]
    [] prop_type = "BorderBottomLeftRadius" -> [variant |-> "BorderBottomLeftRadius", value |-> content_type]
    [] prop_type = "BorderBottomRightRadius" -> [variant |-> "BorderBottomRightRadius", value |-> content_type]
    [] prop_type = "BorderTopColor" -> [variant |-> "BorderTopColor", value |-> content_type]
    [] prop_type = "BorderRightColor" -> [variant |-> "BorderRightColor", value |-> content_type]
    [] prop_type = "BorderLeftColor" -> [variant |-> "BorderLeftColor", value |-> content_type]
    [] prop_type = "BorderBottomColor" -> [variant |-> "BorderBottomColor", value |-> content_type]
    [] prop_type = "BorderTopStyle" -> [variant |-> "BorderTopStyle", value |-> content_type]
    [] prop_type = "BorderRightStyle" -> [variant |-> "BorderRightStyle", value |-> content_type]
    [] prop_type = "BorderLeftStyle" -> [variant |-> "BorderLeftStyle", value |-> content_type]
    [] prop_type = "BorderBottomStyle" -> [variant |-> "BorderBottomStyle", value |-> content_type]
    [] prop_type = "BorderTopWidth" -> [variant |-> "BorderTopWidth", value |-> content_type]
    [] prop_type = "BorderRightWidth" -> [variant |-> "BorderRightWidth", value |-> content_type]
    [] prop_type = "BorderLeftWidth" -> [variant |-> "BorderLeftWidth", value |-> content_type]
    [] prop_type = "BorderBottomWidth" -> [variant |-> "BorderBottomWidth", value |-> content_type]
    [] prop_type = "BoxShadowLeft" -> [variant |-> "BoxShadowLeft", value |-> content_type]
    [] prop_type = "BoxShadowRight" -> [variant |-> "BoxShadowRight", value |-> content_type]
    [] prop_type = "BoxShadowTop" -> [variant |-> "BoxShadowTop", value |-> content_type]
    [] prop_type = "BoxShadowBottom" -> [variant |-> "BoxShadowBottom", value |-> content_type]
    [] prop_type = "ScrollbarStyle" -> [variant |-> "ScrollbarStyle", value |-> content_type]
    [] prop_type = "Opacity" -> [variant |-> "Opacity", value |-> content_type]
    [] prop_type = "Transform" -> [variant |-> "Transform", value |-> content_type]
    [] prop_type = "PerspectiveOrigin" -> [variant |-> "PerspectiveOrigin", value |-> content_type]
    [] prop_type = "TransformOrigin" -> [variant |-> "TransformOrigin", value |-> content_type]
    [] prop_type = "BackfaceVisibility" -> [variant |-> "BackfaceVisibility", value |-> content_type]

get_type_of_variant(self) ==
  IF self.variant = "BackgroundContent" THEN "Background" ELSE self.variant

get_type(self) ==
  CASE self.variant = "TextColor" -> "TextColor"
    [] self.variant = "FontSize" -> "FontSize"
    [] self.variant = "FontFamily" -> "FontFamily"
    [] self.variant = "TextAlign" -> "TextAlign"
    [] self.variant = "LetterSpacing" -> "LetterSpacing"
    [] self.variant = "LineHeight" -> "LineHeight"
    [] self.variant = "WordSpacing" -> "WordSpacing"
    [] self.variant = "TabWidth" -> "TabWidth"
    [] self.variant = "Cursor" -> "Cursor"
    [] self.variant = "Display" -> "Display"
    [] self.variant = "Float" -> "Float"
    [] self.variant = "BoxSizing" -> "BoxSizing"
    [] self.variant = "Width" -> "Width"
    [] self.variant = "Height" -> "Height"
    [] self.variant = "MinWidth" -> "MinWidth"
    [] self.variant = "MinHeight" -> "MinHeight"
    [] self.variant = "MaxWidth" -> "MaxWidth"
    [] self.variant = "MaxHeight" -> "MaxHeight"
    [] self.variant = "Position" -> "Position"
    [] self.variant = "Top" -> "Top"
    [] self.variant = "Right" -> "Right"
    [] self.variant = "Left" -> "Left"
    [] self.variant = "Bottom" -> "Bottom"
    [] self.variant = "FlexWrap" -> "FlexWrap"
    [] self.variant = "FlexDirection" -> "FlexDirection"
    [] self.variant = "FlexGrow" -> "FlexGrow"
    [] self.variant = "FlexShrink" -> "FlexShrink"
    [] self.variant = "JustifyContent" -> "JustifyContent"
    [] self.variant = "AlignItems" -> "AlignItems"
    [] self.variant = "AlignContent" -> "AlignContent"
    [] self.variant = "BackgroundContent" -> "BackgroundImage"
    [] self.variant = "BackgroundPosition" -> "BackgroundPosition"
    [] self.variant = "BackgroundSize" -> "BackgroundSize"
    [] self.variant = "BackgroundRepeat" -> "BackgroundRepeat"
    [] self.variant = "OverflowX" -> "OverflowX"
    [] self.variant = "OverflowY" -> "OverflowY"
    [] self.variant = "PaddingTop" -> "PaddingTop"
    [] self.variant = "PaddingLeft" -> "PaddingLeft"
    [] self.variant = "PaddingRight" -> "PaddingRight"
    [] self.variant = "PaddingBottom" -> "PaddingBottom"
    [] self.variant = "MarginTop" -> "MarginTop"
    [] self.variant = "MarginLeft" -> "MarginLeft"
    [] self.variant = "MarginRight" -> "MarginRight"
    [] self.variant = "MarginBottom" -> "MarginBottom"
    [] self.variant = "BorderTopLeftRadius" -> "BorderTopLeftRadius"
    [] self.variant = "BorderTopRightRadius" -> "BorderTopRightRadius"
    [] self.variant = "BorderBottomLeftRadius" -> "BorderBottomLeftRadius"
    [] self.variant = "BorderBottomRightRadius" -> "BorderBottomRightRadius"
    [] self.variant = "BorderTopColor" -> "BorderTopColor"
    [] self.variant = "BorderRightColor" -> "BorderRightColor"
    [] self.variant = "BorderLeftColor" -> "BorderLeftColor"
    [] self.variant = "BorderBottomColor" -> "BorderBottomColor"
    [] self.variant = "BorderTopStyle" -> "BorderTopStyle"
    [] self.variant = "BorderRightStyle" -> "BorderRightStyle"
    [] self.variant = "BorderLeftStyle" -> "BorderLeftStyle"
    [] self.variant = "BorderBottomStyle" -> "BorderBottomStyle"
    [] self.variant = "BorderTopWidth" -> "BorderTopWidth"
    [] self.variant = "BorderRightWidth" -> "BorderRightWidth"
    [] self.variant = "BorderLeftWidth" -> "BorderLeftWidth"
    [] self.variant = "BorderBottomWidth" -> "BorderBottomWidth"
    [] self.variant = "BoxShadowLeft" -> "BoxShadowLeft"
    [] self.variant = "BoxShadowRight" -> "BoxShadowRight"
    [] self.variant = "BoxShadowTop" -> "BoxShadowTop"
    [] self.variant = "BoxShadowBottom" -> "BoxShadowBottom"
    [] self.variant = "ScrollbarStyle" -> "ScrollbarStyle"
    [] self.variant = "Opacity" -> "Opacity"
    [] self.variant = "Transform" -> "Transform"
    [] self.variant = "PerspectiveOrigin" -> "PerspectiveOrigin"
    [] self.variant = "TransformOrigin" -> "TransformOrigin"
    [] self.variant = "BackfaceVisibility" -> "BackfaceVisibility"

CssProperty_none(prop_type) == css_property_from_type(prop_type, "None")

CssProperty_auto_as_none(prop_type) == css_property_from_type(prop_type, "None")

CssProperty_auto(prop_type) == css_property_from_type(prop_type, "Auto")

CssProperty_initial(prop_type) == css_property_from_type(prop_type, "Initial")

CssProperty_inherit(prop_type) == css_property_from_type(prop_type, "Inherit")

\* the named constructors (text_color, font_size, ...) and the From impls
CssProperty_exact(variant) == [variant |-> variant, value |-> "Exact"]

(* ------------------------------ FloatValue ----------------------------- *)

FP_PRECISION_MULTIPLIER == 1000

Abs(x) == IF x < 0 THEN -x ELSE x

\* f32 * f32
MulF(a, b) == [n |-> a.n * b, d |-> a.d]

as_isize_floor(r) == r.n \div r.d

\* `as isize` on an f32: the fractional part is discarded (toward zero).
\* Saturation and NaN do not arise for the bounded inputs.
as_isize(r) ==
  IF r.n >= 0 THEN r.n \div r.d ELSE -((-r.n) \div r.d)

FloatValue_new(value) ==
  [number |-> as_isize(MulF(value, FP_PRECISION_MULTIPLIER))]

FloatValue_get_by_hundred(self) == [n |-> self.number, d |-> 100]

\* self.number as f32 / FP_PRECISION_MULTIPLIER
FloatValue_get(self) == [n |-> self.number, d |-> FP_PRECISION_MULTIPLIER]

\* #[derive(PartialEq, Eq)] on FloatValue: equality of the stored integers
FloatValue_eq(a, b) == a.number = b.number

FloatValue_cmp_reversed(a, b) ==
  IF b.number < a.number THEN "Less"
  ELSE IF a.number = b.number THEN "Equal" ELSE "Greater"

\* #[derive(PartialOrd, Ord)] on FloatValue: the order of the stored integers
FloatValue_cmp(a, b) ==
  IF a.number < b.number THEN "Less"
  ELSE IF a.number = b.number THEN "Equal" ELSE "Greater"

(* ------------------------------ PixelValue ----------------------------- *)

EM_HEIGHT == 16

PT_TO_PX == [n |-> 96, d |-> 72]

SizeMetric == { "Px", "Pt", "Em", "Percent" }

\* f32 * f32, both rationals
MulR(a, b) == [n |-> a.n * b.n, d |-> a.d * b.d]

\* f32 / f32, the divisor a positive whole number
DivF(a, k) == [n |-> a.n, d |-> a.d * k]

PixelValue_from_metric(metric, value) ==
  [metric |-> metric, number |-> FloatValue_new(value)]

\* impl Display for SizeMetric
SizeMetric_fmt(self) ==
  CASE self = "Px" -> "px"
    [] self = "Pt" -> "pt"
    [] self = "Em" -> "pt"
    [] self = "Percent" -> "%"

\* impl Display for FloatValue: the text of self.get(), which is written
\* here as the f32 it prints (one text per value)
FloatValue_fmt(self) == FloatValue_get(self)

\* impl Display for PixelValue: "{}{}" of the number and the metric, as the
\* sequence of the two pieces
PixelValue_fmt(self) ==
  << FloatValue_fmt(self.number), SizeMetric_fmt(self.metric) >>


PixelValue_to_pixels_pt_inverted(self, percent_resolve) ==
  CASE self.metric = "Px" -> FloatValue_get(self.number)
    [] self.metric = "Pt" ->
         MulR(FloatValue_get(self.number), [n |-> 72, d |-> 96])
    [] self.metric = "Em" -> MulF(FloatValue_get(self.number), EM_HEIGHT)
    [] self.metric = "Percent" ->
         MulR(DivF(FloatValue_get(self.number), 100), percent_resolve)

PixelValue_to_pixels(self, percent_resolve) ==
  CASE self.metric = "Px" -> FloatValue_get(self.number)
    [] self.metric = "Pt" -> MulR(FloatValue_get(self.number), PT_TO_PX)
    [] self.metric = "Em" -> MulF(FloatValue_get(self.number), EM_HEIGHT)
    [] self.metric = "Percent" ->
         MulR(DivF(FloatValue_get(self.number), 100), percent_resolve)

(* ------------------------------ AngleValue ----------------------------- *)

FP_PRECISION_MULTIPLIER_CONST == FP_PRECISION_MULTIPLIER

FloatValue_const_new_unscaled(value) == [number |-> value]

FloatValue_const_new(value) ==
  [number |-> value * FP_PRECISION_MULTIPLIER_CONST]

FloatValue_default == FloatValue_const_new(0)

AngleMetric == { "Degree", "Radians", "Grad", "Turn", "Percent" }

AngleMetric_default == "Degree"

AngleValue_const_from_metric(metric, value) ==
  [metric |-> metric, number |-> FloatValue_const_new(value)]

AngleValue_const_deg(value) == AngleValue_const_from_metric("Degree", value)

AngleValue_zero == AngleValue_const_deg(0)

\* #[derive(Default)] on AngleValue
AngleValue_default ==
  [metric |-> AngleMetric_default, number |-> FloatValue_default]

AngleValue_from_metric(metric, value) ==
  [metric |-> metric, number |-> FloatValue_new(value)]

\* an f32 that may carry a power of std::f32::consts::PI:
\* [n, d, pi] is (n / d) * PI^pi
Plain(r) == [n |-> r.n, d |-> r.d, pi |-> 0]

\* x / (2.0 * PI), x without a power of PI
DivTwoPi(r) == [n |-> r.n, d |-> r.d * 2, pi |-> -1]

\* x * 360.0
Times360(x) == [n |-> x.n * 360, d |-> x.d, pi |-> x.pi]

AngleValue_to_degrees_percent_as_turn(self) ==
  CASE self.metric = "Degree" -> Plain(FloatValue_get(self.number))
    [] self.metric = "Radians" ->
         Times360(Plain(DivF(FloatValue_get(self.number), 400)))
    [] self.metric = "Grad" ->
         Times360(DivTwoPi(FloatValue_get(self.number)))
    [] self.metric = "Turn" -> Times360(Plain(FloatValue_get(self.number)))
    [] self.metric = "Percent" ->
         Times360(Plain(FloatValue_get(self.number)))

AngleValue_to_degrees(self) ==
  CASE self.metric = "Degree" -> Plain(FloatValue_get(self.number))
    [] self.metric = "Radians" ->
         Times360(Plain(DivF(FloatValue_get(self.number), 400)))
    [] self.metric = "Grad" ->
         Times360(DivTwoPi(FloatValue_get(self.number)))
    [] self.metric = "Turn" -> Times360(Plain(FloatValue_get(self.number)))
    [] self.metric = "Percent" ->
         Times360(Plain(DivF(FloatValue_get(self.number), 100)))

(* --- ColorU and ColorF ------------------------------------------------- *)

ColorU_BLACK == [r |-> 0, g |-> 0, b |-> 0, a |-> 255]

\* f32::min(self, other), the other a whole number
MinF(a, k) == IF a.n > k * a.d THEN [n |-> k, d |-> 1] ELSE a

as_u8_wrapping(r) == as_isize(r) % 256

\* `as u8` on an f32: the fractional part is discarded and the result
\* saturates at the ends of 0 ..= 255
as_u8(r) ==
  LET t == as_isize(r)
  IN  IF t < 0 THEN 0 ELSE IF t > 255 THEN 255 ELSE t

ColorF_from_by_256(c) ==
  [r |-> DivF([n |-> c.r, d |-> 1], 256),
   g |-> DivF([n |-> c.g, d |-> 1], 256),
   b |-> DivF([n |-> c.b, d |-> 1], 256),
   a |-> DivF([n |-> c.a, d |-> 1], 256)]

\* impl From<ColorU> for ColorF
ColorF_from(c) ==
  [r |-> DivF([n |-> c.r, d |-> 1], 255),
   g |-> DivF([n |-> c.g, d |-> 1], 255),
   b |-> DivF([n |-> c.b, d |-> 1], 255),
   a |-> DivF([n |-> c.a, d |-> 1], 255)]

\* impl From<ColorF> for ColorU
ColorU_from(c) ==
  [r |-> as_u8(MulF(MinF(c.r, 1), 255)),
   g |-> as_u8(MulF(MinF(c.g, 1), 255)),
   b |-> as_u8(MulF(MinF(c.b, 1), 255)),
   a |-> as_u8(MulF(MinF(c.a, 1), 255))]


(* --- LayoutRect -------------------------------------------------------- *)
(* isize arithmetic is unbounded here: the bounded inputs stay far from    *)
(* the ends of isize.                                                      *)

LayoutPoint_new(x, y) == [x |-> x, y |-> y]

LayoutSize_new(width, height) == [width |-> width, height |-> height]

LayoutRect_new(origin, size) == [origin |-> origin, size |-> size]

LayoutRect_max_x(self) == self.origin.x + self.size.width

LayoutRect_min_x(self) == self.origin.x

LayoutRect_max_y(self) == self.origin.y + self.size.height

LayoutRect_min_y(self) == self.origin.y

LayoutRect_contains_closed(self, other) ==
  /\ LayoutRect_min_x(self) <= other.x
  /\ other.x <= LayoutRect_max_x(self)
  /\ LayoutRect_min_y(self) <= other.y
  /\ other.y <= LayoutRect_max_y(self)

LayoutRect_contains(self, other) ==
  /\ LayoutRect_min_x(self) <= other.x
  /\ other.x < LayoutRect_max_x(self)
  /\ LayoutRect_min_y(self) <= other.y
  /\ other.y < LayoutRect_max_y(self)

LayoutRect_hit_test_near_edges_hit(self, other) ==
  LET dx_left_edge   == other.x - LayoutRect_min_x(self)
      dx_right_edge  == LayoutRect_max_x(self) - other.x
      dy_top_edge    == other.y - LayoutRect_min_y(self)
      dy_bottom_edge == LayoutRect_max_y(self) - other.y
  IN  IF /\ dx_left_edge >= 0
         /\ dx_right_edge > 0
         /\ dy_top_edge >= 0
         /\ dy_bottom_edge > 0
      THEN Some(LayoutPoint_new(dx_left_edge, dy_top_edge))
      ELSE None

LayoutRect_hit_test(self, other) ==
  LET dx_left_edge   == other.x - LayoutRect_min_x(self)
      dx_right_edge  == LayoutRect_max_x(self) - other.x
      dy_top_edge    == other.y - LayoutRect_min_y(self)
      dy_bottom_edge == LayoutRect_max_y(self) - other.y
  IN  IF /\ dx_left_edge > 0
         /\ dx_right_edge > 0
         /\ dy_top_edge > 0
         /\ dy_bottom_edge > 0
      THEN Some(LayoutPoint_new(dx_left_edge, dy_top_edge))
      ELSE None

\* isize::max and isize::min
max(a, b) == IF a >= b THEN a ELSE b

min(a, b) == IF a <= b THEN a ELSE b

\* the `while let` loop of union from the i-th rectangle on; acc holds the
\* four `let mut` locals
RECURSIVE union_loop(_, _, _)
union_loop(rects, i, acc) ==
  IF i > Len(rects)
  THEN acc
  ELSE LET x      == rects[i].origin.x
           y      == rects[i].origin.y
           width  == rects[i].size.width
           height == rects[i].size.height
           cur_lower_right_x == x + width
           cur_lower_right_y == y + height
       IN  union_loop(rects, i + 1,
             [max_width  |-> max(acc.max_width, cur_lower_right_x - acc.min_x),
              max_height |-> max(acc.max_height, cur_lower_right_y - acc.min_y),
              min_x      |-> min(acc.min_x, x),
              min_y      |-> min(acc.min_y, y)])

\* rects is the sequence the iterator yields
LayoutRect_union(rects) ==
  IF rects = << >>
  THEN None
  ELSE LET first == rects[1]
           acc   == union_loop(rects, 2,
                      [max_width  |-> first.size.width,
                       max_height |-> first.size.height,
                       min_x      |-> first.origin.x,
                       min_y      |-> first.origin.y])
       IN  Some([origin |-> [x |-> acc.min_x, y |-> acc.min_y],
                 size   |-> [width |-> acc.max_width,
                             height |-> acc.max_height]])

\* children is the sequence the iterator yields; `?` returns None early
LayoutRect_get_scroll_rect(self, children) ==
  LET children_union == LayoutRect_union(children)
  IN  IF children_union = None
      THEN None
      ELSE LayoutRect_union(<< self, children_union[1] >>)


LayoutRect_contains_rect_half_open(self, b) ==
  /\ b.origin.x >= self.origin.x
  /\ b.origin.y >= self.origin.y
  /\ b.origin.x + b.size.width < self.origin.x + self.size.width
  /\ b.origin.y + b.size.height < self.origin.y + self.size.height

LayoutRect_contains_rect(self, b) ==
  LET a        == self
      a_x      == a.origin.x
      a_y      == a.origin.y
      a_width  == a.size.width
      a_height == a.size.height
      b_x      == b.origin.x
      b_y      == b.origin.y
      b_width  == b.size.width
      b_height == b.size.height
  IN  /\ b_x >= a_x
      /\ b_y >= a_y
      /\ b_x + b_width <= a_x + a_width
      /\ b_y + b_height <= a_y + a_height


(* --- DirectionCorner --------------------------------------------------- *)

DirectionCorner ==
  { "Right", "Left", "Top", "Bottom",
    "TopRight", "TopLeft", "BottomRight", "BottomLeft" }

DirectionCorner_opposite(self) ==
  CASE self = "Right" -> "Left"
    [] self = "Left" -> "Right"
    [] self = "Top" -> "Bottom"
    [] self = "Bottom" -> "Top"
    [] self = "TopRight" -> "BottomLeft"
    [] self = "BottomLeft" -> "TopRight"
    [] self = "TopLeft" -> "BottomRight"
    [] self = "BottomRight" -> "TopLeft"

DirectionCorner_combine_ordered(self, other) ==
  CASE << self, other >> = << "Right", "Top" >> -> Some("TopRight")
    [] << self, other >> = << "Left", "Top" >> -> Some("TopLeft")
    [] << self, other >> = << "Right", "Bottom" >> -> Some("BottomRight")
    [] << self, other >> = << "Left", "Bottom" >> -> Some("BottomLeft")
    [] OTHER -> None

DirectionCorner_combine(self, other) ==
  CASE << self, other >> \in { << "Right", "Top" >>, << "Top", "Right" >> }
         -> Some("TopRight")
    [] << self, other >> \in { << "Left", "Top" >>, << "Top", "Left" >> }
         -> Some("TopLeft")
    [] << self, other >> \in { << "Right", "Bottom" >>, << "Bottom", "Right" >> }
         -> Some("BottomRight")
    [] << self, other >> \in { << "Left", "Bottom" >>, << "Bottom", "Left" >> }
         -> Some("BottomLeft")
    [] OTHER -> None


(* --- whole-number constructors of PixelValue --------------------------- *)

\* `as f32` on an isize
as_f32(value) == [n |-> value, d |-> 1]

PixelValue_const_from_metric(metric, value) ==
  [metric |-> metric, number |-> FloatValue_const_new(value)]

PixelValue_const_px(value) == PixelValue_const_from_metric("Px", value)

PixelValue_const_em(value) == PixelValue_const_from_metric("Em", value)

PixelValue_const_pt(value) == PixelValue_const_from_metric("Pt", value)

PixelValue_const_percent(value) ==
  PixelValue_const_from_metric("Percent", value)

PixelValue_px(value) == PixelValue_from_metric("Px", value)

PixelValue_em(value) == PixelValue_from_metric("Em", value)

PixelValue_pt(value) == PixelValue_from_metric("Pt", value)

PixelValue_percent(value) == PixelValue_from_metric("Percent", value)


(* --- the C API of azul-dll --------------------------------------------- *)
(* heap is the sequence of allocations Box::into_raw has leaked, in the    *)
(* order they were made: heap[a] = [type, freed].  handles is the sequence *)
(* of Az..Ptr values the caller holds: handles[h] is the address (index    *)
(* into heap) in the field ptr.  A handle passed by value or by reference  *)
(* stays with the caller as it was: no function writes to ptr.             *)
(* Freeing an allocation twice and reading a freed one are undefined       *)
(* behaviour: ub records which was hit, and the calls after it are not     *)
(* followed, since the build may then do anything.                         *)

\* the boxed types, by the prefix of their functions
AzTypes ==
  { "az_string", "az_app_config", "az_app", "az_layout_info", "az_dom",
    "az_css", "az_window_create_options" }

\* constructors that take no handle, and the type they allocate
AzConstructors ==
  { << "az_string_from_utf8_unchecked", "az_string" >>,
    << "az_string_from_utf8_lossy", "az_string" >>,
    << "az_app_config_new", "az_app_config" >>,
    << "az_dom_div", "az_dom" >>,
    << "az_css_native", "az_css" >> }

\* constructors that downcast a handle: name, type consumed, type allocated
AzConsumingConstructors ==
  { << "az_app_new", "az_app_config", "az_app" >>,
    << "az_dom_label", "az_string", "az_dom" >>,
    << "az_window_create_options_new", "az_css", "az_window_create_options" >> }

\* the callers of the API, each by the types it allocates and the heap and
\* handles it starts with: one that builds a Dom from strings, the layout
\* callback, the part of the main program that configures the App and the
\* window, and the part that runs them.  The last starts where the one
\* before it ends: az_app_new and az_window_create_options_new have
\* consumed the AppConfig and the Css, whose handles went out of scope.
AzClients ==
  { [types |-> { "az_string", "az_dom" },
     heap |-> << >>, handles |-> << >>],
    [types |-> { "az_layout_info", "az_dom" },
     heap |-> << >>, handles |-> << >>],
    [types |-> { "az_app_config", "az_app", "az_css",
                 "az_window_create_options" },
     heap |-> << >>, handles |-> << >>],
    [types |-> { },
     heap |-> << [type |-> "az_app_config", freed |-> TRUE],
                 [type |-> "az_app", freed |-> FALSE],
                 [type |-> "az_css", freed |-> TRUE],
                 [type |-> "az_window_create_options", freed |-> FALSE] >>,
     handles |-> << 2, 4 >>] }

\* Box::into_raw(Box::new(object)): the heap with one more allocation
box_new(h, type) == Append(h, [type |-> type, freed |-> FALSE])

\* the type and the state of the allocation a handle points to
type_of(h) == heap[handles[h]].type

freed(h) == heap[handles[h]].freed

\* Box::from_raw(ptr.ptr) dropped or moved out of, for every handle of S:
\* the heap with their allocations freed
box_from_raw(S) ==
  [a \in DOMAIN heap |->
     IF \E h \in S : handles[h] = a
     THEN [heap[a] EXCEPT !.freed = TRUE]
     ELSE heap[a]]

az_shallow_copy_deep(h) == Append(handles, Len(heap) + 1)

\* az_X_shallow_copy: the handles after AzXPtr { ptr: ptr.ptr } is returned
az_shallow_copy(h) == Append(handles, handles[h])

az_delete_taking(h) ==
  [i \in 1..(Len(handles) - 1) |-> IF i < h THEN handles[i] ELSE handles[i + 1]]

\* az_X_delete: the handles after the call; ptr.ptr is not written
az_delete(h) == handles


(* --- Direction --------------------------------------------------------- *)
(* Direction::Angle is modelled for angles that are whole multiples of 90  *)
(* degrees, where sin and cos are -1, 0 or 1.  With a = atan(height_half / *)
(* width_half), hypotenuse_len * cos(a) is width_half and hypotenuse_len * *)
(* sin(a) is height_half, so that hypotenuse_len * cos(X + a), X a         *)
(* multiple of 90 degrees, is cos(X) * width_half - sin(X) * height_half.  *)

\* integer division of isize: the quotient is truncated toward zero
div_isize(a, b) == IF a >= 0 THEN a \div b ELSE -((-a) \div b)

DirectionCorner_to_point(self, rect) ==
  CASE self = "Right" ->
         LayoutPoint_new(rect.size.width, div_isize(rect.size.height, 2))
    [] self = "Left" -> LayoutPoint_new(0, div_isize(rect.size.height, 2))
    [] self = "Top" -> LayoutPoint_new(div_isize(rect.size.width, 2), 0)
    [] self = "Bottom" ->
         LayoutPoint_new(div_isize(rect.size.width, 2), rect.size.height)
    [] self = "TopRight" -> LayoutPoint_new(rect.size.width, 0)
    [] self = "TopLeft" -> LayoutPoint_new(0, 0)
    [] self = "BottomRight" ->
         LayoutPoint_new(rect.size.width, rect.size.height)
    [] self = "BottomLeft" -> LayoutPoint_new(0, rect.size.height)

\* f32 + f32 and f32 - f32
AddF(a, b) == [n |-> a.n * b.d + b.n * a.d, d |-> a.d * b.d]

SubF(a, b) == [n |-> a.n * b.d - b.n * a.d, d |-> a.d * b.d]

\* f32::abs
AbsF(a) == [n |-> Abs(a.n), d |-> a.d]

\* f32::round, half away from zero, followed by `as isize`
round_as_isize(r) ==
  IF r.n >= 0
  THEN (2 * r.n + r.d) \div (2 * r.d)
  ELSE -((2 * (-r.n) + r.d) \div (2 * r.d))

\* sin and cos of x degrees, x a whole multiple of 90 given as a rational
sin_deg(x) ==
  LET q == (x.n \div (x.d * 90)) % 4
  IN  CASE q = 0 -> 0 [] q = 1 -> 1 [] q = 2 -> 0 [] q = 3 -> -1

cos_deg(x) ==
  LET q == (x.n \div (x.d * 90)) % 4
  IN  CASE q = 0 -> 1 [] q = 1 -> 0 [] q = 2 -> -1 [] q = 3 -> 0

Direction_to_points(self, rect) ==
  IF self.tag = "Angle"
  THEN
    LET to_deg == AngleValue_to_degrees(self.angle)
        deg    == [n |-> -to_deg.n, d |-> to_deg.d]
        width_half  == [n |-> rect.size.width, d |-> 2]
        height_half == [n |-> rect.size.height, d |-> 2]
        \* ending_point_degrees is base + sign * angle_to_top_left
        base == IF deg.n < 180 * deg.d THEN 90 ELSE 270
        sign == IF deg.n < 90 * deg.d THEN -1
                ELSE IF deg.n < 180 * deg.d THEN 1
                ELSE IF deg.n < 270 * deg.d THEN -1
                ELSE 1
        \* degree_diff_to_corner without the angle_to_top_left part
        diff == SubF([n |-> base, d |-> 1], deg)
        searched_len ==
          AbsF(SubF(MulF(width_half, cos_deg(diff)),
                    MulF(height_half, sign * sin_deg(diff))))
        dx == MulF(searched_len, sin_deg(deg))
        dy == MulF(searched_len, cos_deg(deg))
    IN  IF rect.size.width = 0 /\ rect.size.height = 0
        THEN \* 0.0 / 0.0 is NaN, and NaN as isize is 0
             << LayoutPoint_new(0, 0), LayoutPoint_new(0, 0) >>
        ELSE << LayoutPoint_new(round_as_isize(AddF(width_half, dx)),
                                round_as_isize(AddF(height_half, dy))),
                LayoutPoint_new(round_as_isize(SubF(width_half, dx)),
                                round_as_isize(SubF(height_half, dy))) >>
  ELSE << DirectionCorner_to_point(self.from, rect),
          DirectionCorner_to_point(self.to, rect) >>


(* ------------------------------- inputs -------------------------------- *)

Range(s) == { s[i] : i \in DOMAIN s }

\* runs of whitespace of length 0 .. MaxPad
Pads == UNION { [1..n -> Whitespace] : n \in 0..MaxPad }

\* every key of both tables, and words that are in neither
Words ==
  { e[2] : e \in Range(CSS_PROPERTY_KEY_MAP) }
    \cup { e[2] : e \in Range(COMBINED_CSS_PROPERTIES_KEY_MAP) }
    \cup { "bogus", "asdfasdfasdf", "Width" }

\* a word, the empty string, or words with whitespace between them
Cores ==
  { Lit(w) : w \in Words } \cup { << >>, << "border", " ", "top" >> }

StrInputs == { p \o c \o q : p \in Pads, c \in Cores, q \in Pads }

F32Inputs == { [n |-> k, d |-> InputDen] : k \in (-MaxNum)..MaxNum }

\* lengths and angles: multiples of 0.125 up to MaxUnit of them
UnitInputs == { [n |-> k * 1250, d |-> InputDen] : k \in (-MaxUnit)..MaxUnit }

\* percentage bases: -1.5, 0, 0.5 and 200
RefInputs == { [n |-> r, d |-> 2] : r \in { -3, 0, 1, 400 } }

PixelInputs ==
  [metric : SizeMetric, value : UnitInputs, percent_reference : RefInputs]

\* angles: the lengths above and 3.1416, the nearest input to PI
AngleInputs ==
  [metric : AngleMetric,
   value : UnitInputs \cup { [n |-> 31416, d |-> InputDen] }]

\* the constructors without arguments
NullaryInputs == { "AngleValue::zero", "AngleValue::default" }

\* channels of a ColorF: every multiple of 1 / 510 from MaxChan of them
\* below 0.0 to MaxChan of them above 1.0, and 2.0
ChanInputs ==
  { [n |-> k, d |-> 510] : k \in (-MaxChan)..(510 + MaxChan) }
    \cup { [n |-> 2, d |-> 1] }

ColorFInputs ==
  [r : ChanInputs,
   g : { [n |-> 2, d |-> 1], [n |-> 0, d |-> 1] },
   b : { [n |-> -1, d |-> 2] },
   a : { [n |-> 1, d |-> 2], [n |-> 1, d |-> 1] }]

\* every red channel, the other channels at the ends of the range
ColorUInputs == [r : 0..255, g : {0, 255}, b : {0, 255}, a : {0, 255}]


\* rectangles with origin (x, -x) around (0, 0), widths and heights from -1
\* (a negative isize) to MaxSize
RectInputs ==
  { LayoutRect_new(LayoutPoint_new(x, -x), LayoutSize_new(w, h)) :
      x \in (-MaxCoord)..MaxCoord, w \in (-1)..MaxSize, h \in (-1)..MaxSize }

\* points on, inside and one step around every such rectangle
PointInputs ==
  { LayoutPoint_new(x, y) :
      x \in (-MaxCoord - 1)..(MaxCoord + MaxSize + 1),
      y \in (-MaxCoord - 1)..(MaxCoord + MaxSize + 1) }

\* rectangles of non-negative size for union: origin (x, MaxCoord - x) and
\* size (w, MaxSize - w)
UnionRectInputs ==
  { LayoutRect_new(LayoutPoint_new(x, MaxCoord - x),
                   LayoutSize_new(w, MaxSize - w)) :
      x \in 0..MaxCoord, w \in 0..MaxSize }

\* the sequences of up to MaxRects of them
RectSeqInputs ==
  UNION { [1..n -> UnionRectInputs] : n \in 0..MaxRects }


\* pairs of rectangles for contains_rect: origins (x, 0), every width from
\* -1 to MaxSize, heights 0 and MaxSize
ContainRectInputs ==
  { LayoutRect_new(LayoutPoint_new(x, 0), LayoutSize_new(w, h)) :
      x \in 0..MaxCoord, w \in (-1)..MaxSize, h \in {0, MaxSize} }

\* whole numbers for the const constructors
WholeInputs == (-MaxWhole)..MaxWhole

\* a parent and its children, MaxRects rectangles at most
ScrollRectInputs ==
  UnionRectInputs
    \X UNION { [1..n -> UnionRectInputs] : n \in 0..(MaxRects - 1) }

\* directions: every pair of corners, and the angles of k quarter turns in
\* degrees for k in -MaxQuarter .. MaxQuarter
DirectionInputs ==
  { [tag |-> "FromTo", from |-> f, to |-> t] :
      f \in DirectionCorner, t \in DirectionCorner }
    \cup { [tag |-> "Angle",
            angle |-> AngleValue_from_metric("Degree", [n |-> 90 * k, d |-> 1])] :
             k \in (-MaxQuarter)..MaxQuarter }

\* rectangles of non-negative size at (0, 0) and away from it
DirectionRectInputs ==
  { LayoutRect_new(LayoutPoint_new(x, -x), LayoutSize_new(w, h)) :
      x \in {0, MaxCoord}, w \in 0..MaxSize, h \in 0..MaxSize }

Inputs ==
  [kind : {"str"}, val : StrInputs]
    \cup [kind : {"type"}, val : CssPropertyType]
    \cup [kind : {"combined"}, val : CombinedCssPropertyType]
    \cup [kind : {"variant"}, val : CssPropertyVariant]
    \cup [kind : {"f32"}, val : F32Inputs]
    \cup [kind : {"f32pair"}, val : F32Inputs \X F32Inputs]
    \cup [kind : {"pixel"}, val : PixelInputs]
    \cup [kind : {"angle"}, val : AngleInputs]
    \cup [kind : {"nullary"}, val : NullaryInputs]
    \cup [kind : {"colorf"}, val : ColorFInputs]
    \cup [kind : {"coloru"}, val : ColorUInputs]
    \cup [kind : {"rectpoint"}, val : RectInputs \X PointInputs]
    \cup [kind : {"rects"}, val : RectSeqInputs]
    \cup [kind : {"rectpair"}, val : ContainRectInputs \X ContainRectInputs]
    \cup [kind : {"corner"}, val : DirectionCorner]
    \cup [kind : {"cornerpair"}, val : DirectionCorner \X DirectionCorner]
    \cup [kind : {"isize"}, val : WholeInputs]
    \cup [kind : {"capi"}, val : AzClients]
    \cup [kind : {"scroll"}, val : ScrollRectInputs]
    \cup [kind : {"direction"}, val : DirectionInputs \X DirectionRectInputs]

(* ------------------------------ behaviour ------------------------------ *)

Init ==
  /\ map = NoMap
  /\ given \in Inputs
  /\ op = "start"
  /\ arg = << >>
  /\ res = << >>
  /\ heap = IF given.kind = "capi" THEN given.val.heap ELSE << >>
  /\ handles = IF given.kind = "capi" THEN given.val.handles ELSE << >>
  /\ ub = "none"

Call(name, a, r) ==
  /\ op' = name
  /\ arg' = a
  /\ res' = r

CallGetCssKeyMap ==
  /\ map' = get_css_key_map
  /\ Call("get_css_key_map", << >>, get_css_key_map)
  /\ UNCHANGED <<given, api>>

\* from_str on the given string, or on the key to_str has just returned
CallCssPropertyType_from_str ==
  /\ map # NoMap
  /\ \/ /\ given.kind = "str"
        /\ Call("CssPropertyType::from_str", given.val,
                CssPropertyType_from_str(given.val, map))
     \/ /\ op = "CssPropertyType::to_str"
        /\ ~ res.panic
        /\ Call("CssPropertyType::from_str", res.val,
                CssPropertyType_from_str(res.val, map))
  /\ UNCHANGED <<map, given, api>>

\* to_str on the given type, or on the type from_str has just returned
CallCssPropertyType_to_str ==
  /\ map # NoMap
  /\ \/ /\ given.kind = "type"
        /\ Call("CssPropertyType::to_str", given.val,
                CssPropertyType_to_str(given.val, map))
     \/ /\ op = "CssPropertyType::from_str"
        /\ res # None
        /\ Call("CssPropertyType::to_str", res[1],
                CssPropertyType_to_str(res[1], map))
  /\ UNCHANGED <<map, given, api>>

CallCombinedCssPropertyType_from_str ==
  /\ map # NoMap
  /\ \/ /\ given.kind = "str"
        /\ Call("CombinedCssPropertyType::from_str", given.val,
                CombinedCssPropertyType_from_str(given.val, map))
     \/ /\ op = "CombinedCssPropertyType::to_str"
        /\ ~ res.panic
        /\ Call("CombinedCssPropertyType::from_str", res.val,
                CombinedCssPropertyType_from_str(res.val, map))
  /\ UNCHANGED <<map, given, api>>

CallCombinedCssPropertyType_to_str ==
  /\ map # NoMap
  /\ \/ /\ given.kind = "combined"
        /\ Call("CombinedCssPropertyType::to_str", given.val,
                CombinedCssPropertyType_to_str(given.val, map))
     \/ /\ op = "CombinedCssPropertyType::from_str"
        /\ res # None
        /\ Call("CombinedCssPropertyType::to_str", res[1],
                CombinedCssPropertyType_to_str(res[1], map))
  /\ UNCHANGED <<map, given, api>>

CallIsInheritable ==
  /\ given.kind = "type"
  /\ Call("is_inheritable", given.val, is_inheritable(given.val))
  /\ UNCHANGED <<map, given, api>>

CallCanTriggerRelayout ==
  /\ given.kind = "type"
  /\ Call("can_trigger_relayout", given.val, can_trigger_relayout(given.val))
  /\ UNCHANGED <<map, given, api>>

CallIsGpuOnlyProperty ==
  /\ given.kind = "type"
  /\ Call("is_gpu_only_property", given.val, is_gpu_only_property(given.val))
  /\ UNCHANGED <<map, given, api>>

CallCssProperty_none ==
  /\ given.kind = "type"
  /\ Call("CssProperty::none", given.val, CssProperty_none(given.val))
  /\ UNCHANGED <<map, given, api>>

CallCssProperty_auto ==
  /\ given.kind = "type"
  /\ Call("CssProperty::auto", given.val, CssProperty_auto(given.val))
  /\ UNCHANGED <<map, given, api>>

CallCssProperty_initial ==
  /\ given.kind = "type"
  /\ Call("CssProperty::initial", given.val, CssProperty_initial(given.val))
  /\ UNCHANGED <<map, given, api>>

CallCssProperty_inherit ==
  /\ given.kind = "type"
  /\ Call("CssProperty::inherit", given.val, CssProperty_inherit(given.val))
  /\ UNCHANGED <<map, given, api>>

CallCssProperty_exact ==
  /\ given.kind = "variant"
  /\ Call("CssProperty::exact", given.val, CssProperty_exact(given.val))
  /\ UNCHANGED <<map, given, api>>

CssPropertyConstructors ==
  { "CssProperty::none", "CssProperty::auto", "CssProperty::initial",
    "CssProperty::inherit", "CssProperty::exact" }

\* get_type() on the property the last call constructed
CallGetType ==
  /\ op \in CssPropertyConstructors
  /\ Call("CssProperty::get_type", res, get_type(res))
  /\ UNCHANGED <<map, given, api>>

CallFloatValue_new ==
  /\ given.kind = "f32"
  /\ Call("FloatValue::new", given.val, FloatValue_new(given.val))
  /\ UNCHANGED <<map, given, api>>

\* get() on the FloatValue the last call constructed
CallFloatValue_get ==
  /\ op = "FloatValue::new"
  /\ Call("FloatValue::get", res, FloatValue_get(res))
  /\ UNCHANGED <<map, given, api>>

\* FloatValue::new on each of two given values
CallFloatValue_new_pair ==
  /\ given.kind = "f32pair"
  /\ Call("FloatValue::new pair", given.val,
          << FloatValue_new(given.val[1]), FloatValue_new(given.val[2]) >>)
  /\ UNCHANGED <<map, given, api>>

\* a == b on the two FloatValues the last call constructed
CallFloatValue_eq ==
  /\ op = "FloatValue::new pair"
  /\ Call("FloatValue::eq", res, FloatValue_eq(res[1], res[2]))
  /\ UNCHANGED <<map, given, api>>

\* a.cmp(&b) on the two FloatValues the last call constructed
CallFloatValue_cmp ==
  /\ op = "FloatValue::new pair"
  /\ Call("FloatValue::cmp", res, FloatValue_cmp(res[1], res[2]))
  /\ UNCHANGED <<map, given, api>>

CallPixelValue_from_metric ==
  /\ given.kind = "pixel"
  /\ Call("PixelValue::from_metric", << given.val.metric, given.val.value >>,
          PixelValue_from_metric(given.val.metric, given.val.value))
  /\ UNCHANGED <<map, given, api>>

\* to_pixels() on the PixelValue the last call constructed
CallPixelValue_to_pixels ==
  /\ op = "PixelValue::from_metric"
  /\ Call("PixelValue::to_pixels", << res, given.val.percent_reference >>,
          PixelValue_to_pixels(res, given.val.percent_reference))
  /\ UNCHANGED <<map, given, api>>

CallAngleValue_from_metric ==
  /\ given.kind = "angle"
  /\ Call("AngleValue::from_metric", << given.val.metric, given.val.value >>,
          AngleValue_from_metric(given.val.metric, given.val.value))
  /\ UNCHANGED <<map, given, api>>

CallAngleValue_zero ==
  /\ given.kind = "nullary"
  /\ given.val = "AngleValue::zero"
  /\ Call("AngleValue::zero", << >>, AngleValue_zero)
  /\ UNCHANGED <<map, given, api>>

CallAngleValue_default ==
  /\ given.kind = "nullary"
  /\ given.val = "AngleValue::default"
  /\ Call("AngleValue::default", << >>, AngleValue_default)
  /\ UNCHANGED <<map, given, api>>

AngleValueConstructors ==
  { "AngleValue::from_metric", "AngleValue::zero", "AngleValue::default" }

\* to_degrees() on the AngleValue the last call constructed
CallAngleValue_to_degrees ==
  /\ op \in AngleValueConstructors
  /\ Call("AngleValue::to_degrees", res, AngleValue_to_degrees(res))
  /\ UNCHANGED <<map, given, api>>

CallColorF_from ==
  /\ given.kind = "coloru"
  /\ Call("ColorF::from", given.val, ColorF_from(given.val))
  /\ UNCHANGED <<map, given, api>>

\* ColorU::from on a ColorF, given or returned by the last call
CallColorU_from ==
  /\ given.kind = "colorf" \/ op = "ColorF::from"
  /\ LET c == IF op = "ColorF::from" THEN res ELSE given.val
     IN  Call("ColorU::from", c, ColorU_from(c))
  /\ UNCHANGED <<map, given, api>>


CallLayoutRect_contains ==
  /\ given.kind = "rectpoint"
  /\ Call("LayoutRect::contains", given.val,
          LayoutRect_contains(given.val[1], given.val[2]))
  /\ UNCHANGED <<map, given, api>>

CallLayoutRect_hit_test ==
  /\ given.kind = "rectpoint"
  /\ Call("LayoutRect::hit_test", given.val,
          LayoutRect_hit_test(given.val[1], given.val[2]))
  /\ UNCHANGED <<map, given, api>>

CallLayoutRect_union ==
  /\ given.kind = "rects"
  /\ Call("LayoutRect::union", given.val, LayoutRect_union(given.val))
  /\ UNCHANGED <<map, given, api>>


CallLayoutRect_contains_rect ==
  /\ given.kind = "rectpair"
  /\ Call("LayoutRect::contains_rect", given.val,
          LayoutRect_contains_rect(given.val[1], given.val[2]))
  /\ UNCHANGED <<map, given, api>>

\* opposite() on the given corner, or on the corner opposite() has just
\* returned
CallDirectionCorner_opposite ==
  /\ given.kind = "corner"
  /\ LET c == IF op = "DirectionCorner::opposite" THEN res ELSE given.val
     IN  Call("DirectionCorner::opposite", c, DirectionCorner_opposite(c))
  /\ UNCHANGED <<map, given, api>>

CallDirectionCorner_combine ==
  /\ given.kind = "cornerpair"
  /\ Call("DirectionCorner::combine", given.val,
          DirectionCorner_combine(given.val[1], given.val[2]))
  /\ UNCHANGED <<map, given, api>>

CallFloatValue_const_new ==
  /\ given.kind = "isize"
  /\ Call("FloatValue::const_new", given.val, FloatValue_const_new(given.val))
  /\ UNCHANGED <<map, given, api>>

\* const_px, const_em, const_pt or const_percent: each passes its metric on
CallPixelValue_const_from_metric ==
  /\ given.kind = "isize"
  /\ \E metric \in SizeMetric :
       Call("PixelValue::const_from_metric", << metric, given.val >>,
            PixelValue_const_from_metric(metric, given.val))
  /\ UNCHANGED <<map, given, api>>

\* az_string_from_utf8_unchecked, az_string_from_utf8_lossy,
\* az_app_config_new, az_dom_div, az_css_native
CallAzNew ==
  /\ given.kind = "capi"
  /\ ub = "none"
  /\ Len(heap) < MaxAllocs
  /\ Len(handles) < MaxHandles
  /\ \E c \in AzConstructors :
       /\ c[2] \in given.val.types
       /\ heap' = box_new(heap, c[2])
       /\ handles' = Append(handles, Len(heap) + 1)
       /\ Call(c[1], << >>, Len(handles) + 1)
  /\ UNCHANGED <<map, given, ub>>

\* the layout callback is handed an AzLayoutInfoPtr by the framework
CallAzLayoutCallback ==
  /\ given.kind = "capi"
  /\ ub = "none"
  /\ Len(heap) < MaxAllocs
  /\ Len(handles) < MaxHandles
  /\ "az_layout_info" \in given.val.types
  /\ heap' = box_new(heap, "az_layout_info")
  /\ handles' = Append(handles, Len(heap) + 1)
  /\ Call("AzLayoutCallback", << >>, Len(handles) + 1)
  /\ UNCHANGED <<map, given, ub>>

\* az_X_shallow_copy(&h)
CallAzShallowCopy ==
  /\ given.kind = "capi"
  /\ ub = "none"
  /\ Len(handles) < MaxHandles
  /\ \E h \in DOMAIN handles :
       /\ handles' = az_shallow_copy(h)
       /\ Call(type_of(h) \o "_shallow_copy", h, Len(handles) + 1)
  /\ UNCHANGED <<map, given, heap, ub>>

\* az_X_delete(&mut h)
CallAzDelete ==
  /\ given.kind = "capi"
  /\ ub = "none"
  /\ \E h \in DOMAIN handles :
       /\ IF freed(h)
          THEN ub' = "double free" /\ heap' = heap
          ELSE ub' = ub /\ heap' = box_from_raw({h})
       /\ handles' = az_delete(h)
       /\ Call(type_of(h) \o "_delete", h, << >>)
  /\ UNCHANGED <<map, given>>

\* az_app_new(data, config, callback), az_dom_label(text),
\* az_window_create_options_new(css): *az_X_downcast(h) moves the value out
\* of the box and frees it, then the result is boxed
CallAzNewFrom ==
  /\ given.kind = "capi"
  /\ ub = "none"
  /\ \E c \in AzConsumingConstructors : \E h \in DOMAIN handles :
       /\ c[3] \in given.val.types
       /\ type_of(h) = c[2]
       /\ IF freed(h)
          THEN /\ ub' = "use after free"
               /\ UNCHANGED <<heap, handles>>
               /\ Call(c[1], h, << >>)
          ELSE /\ Len(heap) < MaxAllocs
               /\ Len(handles) < MaxHandles
               /\ ub' = ub
               /\ heap' = box_new(box_from_raw({h}), c[3])
               /\ handles' = Append(handles, Len(heap) + 1)
               /\ Call(c[1], h, Len(handles) + 1)
  /\ UNCHANGED <<map, given>>

\* az_ref_any_new(ptr, len, type_id, type_name, custom_destructor): the
\* string is downcast; the RefAny returned is not a boxed handle
CallAzRefAnyNew ==
  /\ given.kind = "capi"
  /\ ub = "none"
  /\ \E h \in DOMAIN handles :
       /\ type_of(h) = "az_string"
       /\ IF freed(h)
          THEN ub' = "use after free" /\ heap' = heap
          ELSE ub' = ub /\ heap' = box_from_raw({h})
       /\ Call("az_ref_any_new", h, << >>)
  /\ UNCHANGED <<map, given, handles>>

\* az_app_run(app, window): both handles are downcast
CallAzAppRun ==
  /\ given.kind = "capi"
  /\ ub = "none"
  /\ \E a \in DOMAIN handles : \E w \in DOMAIN handles :
       /\ type_of(a) = "az_app"
       /\ type_of(w) = "az_window_create_options"
       /\ IF freed(a) \/ freed(w)
          THEN ub' = "use after free" /\ heap' = heap
          ELSE ub' = ub /\ heap' = box_from_raw({a, w})
       /\ Call("az_app_run", << a, w >>, << >>)
  /\ UNCHANGED <<map, given, handles>>

CallLayoutRect_get_scroll_rect ==
  /\ given.kind = "scroll"
  /\ Call("LayoutRect::get_scroll_rect", given.val,
          LayoutRect_get_scroll_rect(given.val[1], given.val[2]))
  /\ UNCHANGED <<map, given, api>>

\* format!("{}", v) on the PixelValue the last call constructed
CallPixelValue_fmt ==
  /\ op = "PixelValue::from_metric"
  /\ Call("PixelValue::fmt", res, PixelValue_fmt(res))
  /\ UNCHANGED <<map, given, api>>

CallDirection_to_points ==
  /\ given.kind = "direction"
  /\ Call("Direction::to_points", given.val,
          Direction_to_points(given.val[1], given.val[2]))
  /\ UNCHANGED <<map, given, api>>

Next ==
  \/ CallGetCssKeyMap
  \/ CallCssPropertyType_from_str
  \/ CallCssPropertyType_to_str
  \/ CallCombinedCssPropertyType_from_str
  \/ CallCombinedCssPropertyType_to_str
  \/ CallIsInheritable
  \/ CallCanTriggerRelayout
  \/ CallIsGpuOnlyProperty
  \/ CallCssProperty_none
  \/ CallCssProperty_auto
  \/ CallCssProperty_initial
  \/ CallCssProperty_inherit
  \/ CallCssProperty_exact
  \/ CallGetType
  \/ CallFloatValue_new
  \/ CallFloatValue_get
  \/ CallFloatValue_new_pair
  \/ CallFloatValue_eq
  \/ CallFloatValue_cmp
  \/ CallPixelValue_from_metric
  \/ CallPixelValue_to_pixels
  \/ CallAngleValue_from_metric
  \/ CallAngleValue_zero
  \/ CallAngleValue_default
  \/ CallAngleValue_to_degrees
  \/ CallColorF_from
  \/ CallColorU_from
  \/ CallLayoutRect_contains
  \/ CallLayoutRect_hit_test
  \/ CallLayoutRect_union
  \/ CallLayoutRect_contains_rect
  \/ CallDirectionCorner_opposite
  \/ CallDirectionCorner_combine
  \/ CallFloatValue_const_new
  \/ CallPixelValue_const_from_metric
  \/ CallAzNew
  \/ CallAzLayoutCallback
  \/ CallAzShallowCopy
  \/ CallAzDelete
  \/ CallAzNewFrom
  \/ CallAzRefAnyNew
  \/ CallAzAppRun
  \/ CallLayoutRect_get_scroll_rect
  \/ CallPixelValue_fmt
  \/ CallDirection_to_points

Spec == Init /\ [][Next]_vars

(* ------------------------------- claims -------------------------------- *)

NullaryConstructors ==
  { "CssProperty::none", "CssProperty::auto", "CssProperty::initial",
    "CssProperty::inherit" }

\* C1: for every CssPropertyType t, get_type() of CssProperty::none(t),
\* auto(t), initial(t) and inherit(t) is t again.
C1_GetTypeInvertsConstructors ==
  (op = "CssProperty::get_type" /\ given.kind = "type") =>
    /\ arg \in { CssProperty_none(given.val), CssProperty_auto(given.val),
                 CssProperty_initial(given.val), CssProperty_inherit(given.val) }
    /\ res = given.val

BackgroundTypes == { "Background", "BackgroundImage", "BackgroundColor" }

TagOf(constructor) ==
  CASE constructor = "CssProperty::none" -> "None"
    [] constructor = "CssProperty::auto" -> "Auto"
    [] constructor = "CssProperty::initial" -> "Initial"
    [] constructor = "CssProperty::inherit" -> "Inherit"

\* C3: none(t), auto(t), initial(t) and inherit(t) carry the tags None,
\* Auto, Initial and Inherit, never Exact, and the four results for one t
\* are the same variant and differ in the tag only.
C3_ConstructorsCarryTheirTag ==
  op \in NullaryConstructors =>
    /\ res.value = TagOf(op)
    /\ res.value # "Exact"
    /\ \A p \in { CssProperty_none(arg), CssProperty_auto(arg),
                  CssProperty_initial(arg), CssProperty_inherit(arg) } :
         p.variant = res.variant
    /\ Cardinality({ CssProperty_none(arg).value, CssProperty_auto(arg).value,
                     CssProperty_initial(arg).value,
                     CssProperty_inherit(arg).value }) = 4

C3_Witness ==
  /\ op = "CssProperty::auto"
  /\ arg = "Width"
  /\ res = [variant |-> "Width", value |-> "Auto"]

AllWhitespace(s) == \A i \in DOMAIN s : s[i] \in Whitespace

\* s is the word w with nothing but whitespace before and after it
Surrounds(s, w) ==
  \E a \in 0..Len(s) :
    /\ a < Len(s)
    /\ s[a + 1] = w
    /\ AllWhitespace(SubSeq(s, 1, a))
    /\ AllWhitespace(SubSeq(s, a + 2, Len(s)))

\* C4: CssPropertyType::from_str(key, map) is Some(t) exactly when key
\* without its surrounding whitespace is the table key of t, and None for
\* every other string: "width" and "  width  " give Some(Width), "bogus"
\* gives None.
C4_FromStrTrimsAndLooksUp ==
  (op = "CssPropertyType::from_str" /\ given.kind = "str") =>
    /\ \A i \in DOMAIN CSS_PROPERTY_KEY_MAP :
         (res = Some(CSS_PROPERTY_KEY_MAP[i][1]))
           <=> Surrounds(arg, CSS_PROPERTY_KEY_MAP[i][2])
    /\ (res = None)
         <=> ~ \E i \in DOMAIN CSS_PROPERTY_KEY_MAP :
                 Surrounds(arg, CSS_PROPERTY_KEY_MAP[i][2])
    /\ arg = << "width" >> => res = Some("Width")
    /\ arg = << " ", " ", "width", " ", " " >> => res = Some("Width")
    /\ arg = << "bogus" >> => res = None

C4_Witness ==
  /\ op = "CssPropertyType::from_str"
  /\ arg = << " ", " ", "width", " ", " " >>
  /\ res = Some("Width")

\* no two entries of the table share a type or a key, and every
\* enumerator has an entry
Bijective(table, enum) ==
  /\ \A i, j \in DOMAIN table :
       (table[i][1] = table[j][1] \/ table[i][2] = table[j][2]) => i = j
  /\ { table[i][1] : i \in DOMAIN table } = enum

KeyCount(m, self) == Cardinality({ k \in DOMAIN m : m[k] = self })

\* C5: the key tables are bijections: to_str finds exactly one key for every
\* CssPropertyType and CombinedCssPropertyType and never panics,
\* from_str(to_str(t)) is Some(t), to_str(from_str(k)) is k for every table
\* key k, and no two entries share a key or a type.
C5_KeyTableBijection ==
  /\ op = "get_css_key_map" =>
       /\ Bijective(CSS_PROPERTY_KEY_MAP, CssPropertyType)
       /\ Bijective(COMBINED_CSS_PROPERTIES_KEY_MAP, CombinedCssPropertyType)
  /\ (op = "CssPropertyType::to_str" /\ given.kind = "type") =>
       /\ ~ res.panic
       /\ KeyCount(map.non_shorthands, arg) = 1
  /\ (op = "CssPropertyType::from_str" /\ given.kind = "type") =>
       res = Some(given.val)
  /\ (op = "CssPropertyType::to_str" /\ given.kind = "str"
        /\ \E e \in Range(CSS_PROPERTY_KEY_MAP) : given.val = Lit(e[2])) =>
       res = [panic |-> FALSE, val |-> given.val]
  /\ (op = "CombinedCssPropertyType::to_str" /\ given.kind = "combined") =>
       /\ ~ res.panic
       /\ KeyCount(map.shorthands, arg) = 1
  /\ (op = "CombinedCssPropertyType::from_str" /\ given.kind = "combined") =>
       res = Some(given.val)
  /\ (op = "CombinedCssPropertyType::to_str" /\ given.kind = "str"
        /\ \E e \in Range(COMBINED_CSS_PROPERTIES_KEY_MAP) :
             given.val = Lit(e[2])) =>
       res = [panic |-> FALSE, val |-> given.val]

C5_Witness ==
  /\ op = "CssPropertyType::from_str"
  /\ given = [kind |-> "type", val |-> "BorderTopWidth"]
  /\ arg = << "border-top-width" >>
  /\ res = Some("BorderTopWidth")

\* C6: the map of get_css_key_map() has 72 non-shorthand and 10 shorthand
\* entries and the key sets are disjoint: no string resolves through both
\* CssPropertyType::from_str and CombinedCssPropertyType::from_str.
C6_KeyMapSizesAndDisjoint ==
  /\ map # NoMap =>
       /\ Cardinality(DOMAIN map.non_shorthands) = 72
       /\ Cardinality(DOMAIN map.shorthands) = 10
       /\ (DOMAIN map.non_shorthands) \cap (DOMAIN map.shorthands) = {}
  /\ (op = "CssPropertyType::from_str" /\ res # None) =>
       CombinedCssPropertyType_from_str(arg, map) = None
  /\ (op = "CombinedCssPropertyType::from_str" /\ res # None) =>
       CssPropertyType_from_str(arg, map) = None

C6_Witness ==
  /\ op = "CombinedCssPropertyType::from_str"
  /\ arg = << " ", "border-top" >>
  /\ res = Some("BorderTop")
  /\ CssPropertyType_from_str(arg, map) = None

C7_VisualOnly ==
  { "TextColor", "Cursor",
    "Background", "BackgroundImage", "BackgroundColor", "BackgroundPosition",
    "BackgroundSize", "BackgroundRepeat",
    "BorderTopLeftRadius", "BorderTopRightRadius", "BorderBottomLeftRadius",
    "BorderBottomRightRadius",
    "BorderTopColor", "BorderRightColor", "BorderLeftColor",
    "BorderBottomColor",
    "BorderTopStyle", "BorderRightStyle", "BorderLeftStyle",
    "BorderBottomStyle",
    "BoxShadowLeft", "BoxShadowRight", "BoxShadowTop", "BoxShadowBottom" }

\* C7: can_trigger_relayout() is false for text color, cursor, the six
\* background properties, the four border radii, colors and styles and the
\* four box-shadow sides, and true for every other property type.
C7_RelayoutExceptVisualOnly ==
  op = "can_trigger_relayout" => (res <=> arg \notin C7_VisualOnly)

C8_Inheritable ==
  { "TextColor", "FontFamily", "FontSize", "LineHeight", "TextAlign" }

\* C8: is_inheritable() is true for exactly TextColor, FontFamily, FontSize,
\* LineHeight and TextAlign and false for the other 67 property types.
C8_InheritableExactlyFive ==
  /\ op = "is_inheritable" => (res <=> arg \in C8_Inheritable)
  /\ Cardinality(CssPropertyType \ C8_Inheritable) = 67

C8_Witness ==
  /\ op = "is_inheritable"
  /\ arg = "TextAlign"
  /\ res = TRUE

\* C9: is_gpu_only_property() is true for exactly Opacity and Transform and
\* false for every other type, PerspectiveOrigin, TransformOrigin and
\* BackfaceVisibility included.
C9_GpuOnlyExactlyTwo ==
  op = "is_gpu_only_property" =>
    /\ res <=> arg \in { "Opacity", "Transform" }
    /\ arg \in { "PerspectiveOrigin", "TransformOrigin", "BackfaceVisibility" }
         => res = FALSE

C9_Witness ==
  /\ op = "is_gpu_only_property"
  /\ arg = "TransformOrigin"
  /\ res = FALSE

\* f32::round of n / d: to the nearest integer, halves away from zero
Round(n, d) ==
  IF n >= 0 THEN (2 * n + d) \div (2 * d) ELSE -((2 * (-n) + d) \div (2 * d))

\* get() is stored / 1000.0
GetIsStoredOverMultiplier ==
  op = "FloatValue::get" => res.n * 1000 = arg.number * res.d

AbsDiff(a, b) == [n |-> Abs(a.n * b.d - b.n * a.d), d |-> a.d * b.d]

LeqF(a, b) == a.n * b.d <= b.n * a.d

\* C12: two FloatValues are equal iff their stored integers are equal, they
\* are ordered as their stored integers, new(v) == new(v) on every repeat,
\* and v1 <= v2 implies new(v1) <= new(v2).
C12_EqOrdOfStoredIntegers ==
  /\ op = "FloatValue::eq" =>
       /\ res <=> (arg[1].number = arg[2].number)
       /\ given.val[1] = given.val[2] => res = TRUE
  /\ op = "FloatValue::cmp" =>
       /\ res = "Less" <=> arg[1].number < arg[2].number
       /\ res = "Equal" <=> arg[1].number = arg[2].number
       /\ res = "Greater" <=> arg[1].number > arg[2].number
       /\ LeqF(given.val[1], given.val[2]) => res \in { "Less", "Equal" }

\* two different inputs, the first negative, ordered as their inputs
C12_Witness ==
  /\ op = "FloatValue::cmp"
  /\ given.val[1].n < 0
  /\ LeqF(given.val[1], given.val[2])
  /\ arg[1].number < arg[2].number
  /\ res = "Less"

RECURSIVE GCD(_, _)
GCD(a, b) == IF b = 0 THEN a ELSE GCD(b, a % b)

\* a rational in lowest terms
Reduce(r) ==
  LET g == GCD(Abs(r.n), r.d)
  IN  [n |-> r.n \div g, d |-> r.d \div g]

\* a = b for rationals
EqF(a, b) == Reduce(a) = Reduce(b)

\* the quantized number of a PixelValue or AngleValue, as a rational
Quantized(self) == [n |-> self.number.number, d |-> 1000]

\* C13: to_pixels(r) is value for Px, value * 96 / 72 for Pt, value * 16 for
\* Em and value / 100 * r for Percent, value being the quantized number;
\* for Px, Pt and Em the result does not depend on r.
C13_ToPixelsByMetric ==
  op = "PixelValue::to_pixels" =>
    LET self  == arg[1]
        r     == arg[2]
        value == Quantized(self)
    IN  /\ self.metric = "Px" => EqF(res, value)
        /\ self.metric = "Pt" =>
             EqF(res, [n |-> value.n * 96, d |-> value.d * 72])
        /\ self.metric = "Em" => EqF(res, [n |-> value.n * 16, d |-> value.d])
        /\ self.metric = "Percent" =>
             EqF(res, [n |-> value.n * r.n, d |-> value.d * 100 * r.d])
        /\ self.metric # "Percent" =>
             \A other \in RefInputs : PixelValue_to_pixels(self, other) = res

\* a positive length in pt: three times the result is four times the value
C13_Witness ==
  /\ op = "PixelValue::to_pixels"
  /\ arg[1].metric = "Pt"
  /\ arg[1].number.number > 0
  /\ EqF(MulF(res, 3), MulF(Quantized(arg[1]), 4))

\* a = b for values [n, d, pi]
EqA(a, b) ==
  \/ a.n = 0 /\ b.n = 0
  \/ a.pi = b.pi /\ EqF(a, b)

\* a positive value [n, d, pi] lies strictly between lo and hi, PI taken
\* between 3.14 and 3.15
Between(x, lo, hi) ==
  LET r == Reduce(x)
  IN  CASE x.pi = 0 -> lo * r.d < r.n /\ r.n < hi * r.d
        [] x.pi = -1 -> lo * r.d * 315 < r.n * 100 /\ r.n * 100 < hi * r.d * 314

\* C14: to_degrees() of a Radians value is value * 360 / (2 PI), so that PI
\* radians (stored as 3.141) yields 180 degrees (to within one degree).
C14_RadiansTimes360OverTwoPi ==
  (op = "AngleValue::to_degrees" /\ arg.metric = "Radians") =>
    /\ EqA(res, Times360(DivTwoPi(Quantized(arg))))
    /\ arg.number.number = 3141 => Between(res, 179, 181)

C15_WitnessZero ==
  /\ op = "AngleValue::to_degrees"
  /\ given.kind = "nullary"
  /\ res.n = 0


Channels == { "r", "g", "b", "a" }

\* C16: ColorU::from(ColorF) yields, for every channel c, a value in
\* 0 .. 255: 255 when c > 1.0, 0 when c < 0.0 and floor(c * 255) when c is
\* in [0, 1] (the product is truncated, not rounded).
C16_ClampScaleTruncate ==
  op = "ColorU::from" =>
    \A ch \in Channels :
      LET c == arg[ch]
          u == res[ch]
      IN  /\ u \in 0..255
          /\ c.n > c.d => u = 255
          /\ c.n < 0 => u = 0
          /\ (0 <= c.n /\ c.n <= c.d) =>
               /\ u * c.d <= c.n * 255
               /\ c.n * 255 < (u + 1) * c.d

\* a red channel in [0, 1] whose product with 255 ends in .5 and was
\* truncated, beside a green channel above 1.0 and a blue one below 0.0
C16_Witness ==
  /\ op = "ColorU::from"
  /\ given.kind = "colorf"
  /\ 0 < arg.r.n /\ arg.r.n < arg.r.d
  /\ 2 * arg.r.n * 255 = (2 * res.r + 1) * arg.r.d
  /\ arg.g.n > arg.g.d /\ res.g = 255
  /\ arg.b.n < 0 /\ res.b = 0

C17_WitnessBlack ==
  /\ op = "ColorU::from"
  /\ given.kind = "coloru"
  /\ given.val = ColorU_BLACK
  /\ res = ColorU_BLACK


\* C18: contains(p) is min_x <= p.x < max_x and min_y <= p.y < max_y, with
\* max_x = origin.x + size.width and max_y = origin.y + size.height: the
\* origin corner of a rectangle of positive size is contained, a point on
\* the far edge is not, and a rectangle of zero width or height contains
\* no point.
C18_ContainsHalfOpen ==
  op = "LayoutRect::contains" =>
    LET self == arg[1]
        p    == arg[2]
    IN  /\ LayoutRect_max_x(self) = self.origin.x + self.size.width
        /\ LayoutRect_max_y(self) = self.origin.y + self.size.height
        /\ res <=> /\ self.origin.x <= p.x
                   /\ p.x < self.origin.x + self.size.width
                   /\ self.origin.y <= p.y
                   /\ p.y < self.origin.y + self.size.height
        /\ (p = self.origin /\ self.size.width > 0 /\ self.size.height > 0)
             => res
        /\ p.x = self.origin.x + self.size.width => ~res
        /\ p.y = self.origin.y + self.size.height => ~res
        /\ (self.size.width = 0 \/ self.size.height = 0) => ~res

\* the last point inside: one step before the far edge on both axes, in a
\* rectangle more than one step wide and high
C18_Witness ==
  /\ op = "LayoutRect::contains"
  /\ arg[1].size.width > 1
  /\ arg[1].size.height > 1
  /\ arg[2].x = LayoutRect_max_x(arg[1]) - 1
  /\ arg[2].y = LayoutRect_max_y(arg[1]) - 1
  /\ res

C19_WitnessEdge ==
  /\ op = "LayoutRect::hit_test"
  /\ res = None
  /\ LayoutRect_contains(arg[1], arg[2])

\* the least and the greatest integer of a non-empty set
SetMin(S) == CHOOSE m \in S : \A n \in S : m <= n

SetMax(S) == CHOOSE m \in S : \A n \in S : m >= n

\* the minimal bounding rectangle of a non-empty sequence of rectangles
Bounding(rects) ==
  LET x0 == SetMin({ rects[i].origin.x : i \in DOMAIN rects })
      y0 == SetMin({ rects[i].origin.y : i \in DOMAIN rects })
      x1 == SetMax({ LayoutRect_max_x(rects[i]) : i \in DOMAIN rects })
      y1 == SetMax({ LayoutRect_max_y(rects[i]) : i \in DOMAIN rects })
  IN  [origin |-> [x |-> x0, y |-> y0],
       size   |-> [width |-> x1 - x0, height |-> y1 - y0]]

\* C20: union is None for the empty sequence; for a non-empty sequence of
\* rectangles of non-negative size, in any order, it is the minimal bounding
\* rectangle, which contains_rect every rectangle of the sequence.
C20_UnionMinimalBounding ==
  op = "LayoutRect::union" =>
    /\ arg = << >> => res = None
    /\ arg # << >> =>
         /\ res = Some(Bounding(arg))
         /\ \A i \in DOMAIN arg : LayoutRect_contains_rect(res[1], arg[i])


CornerAt(c) ==
  CASE c = "Right" -> << 1, 0 >>
    [] c = "Left" -> << -1, 0 >>
    [] c = "Top" -> << 0, -1 >>
    [] c = "Bottom" -> << 0, 1 >>
    [] c = "TopRight" -> << 1, -1 >>
    [] c = "TopLeft" -> << -1, -1 >>
    [] c = "BottomRight" -> << 1, 1 >>
    [] c = "BottomLeft" -> << -1, 1 >>

\* C22: opposite() is an involution onto the diametrically opposite side or
\* corner; combine(a, b) is commutative, is Some(corner) exactly when one
\* argument is Left or Right and the other Top or Bottom, the corner lying
\* on both sides, and None for every other pair.
C22_OppositeAndCombine ==
  /\ op = "DirectionCorner::opposite" =>
       /\ CornerAt(res) = << -CornerAt(arg)[1], -CornerAt(arg)[2] >>
       /\ DirectionCorner_opposite(res) = arg
       /\ arg # given.val => res = given.val
  /\ op = "DirectionCorner::combine" =>
       LET a == arg[1]
           b == arg[2]
           crossed == \/ a \in {"Left", "Right"} /\ b \in {"Top", "Bottom"}
                      \/ a \in {"Top", "Bottom"} /\ b \in {"Left", "Right"}
       IN  /\ res = DirectionCorner_combine(b, a)
           /\ crossed <=> res # None
           /\ crossed =>
                CornerAt(res[1]) = << CornerAt(a)[1] + CornerAt(b)[1],
                                      CornerAt(a)[2] + CornerAt(b)[2] >>

\* a vertical side combined with a horizontal one, in that order
C22_Witness ==
  /\ op = "DirectionCorner::combine"
  /\ arg = << "Top", "Right" >>
  /\ res = Some("TopRight")

\* a corner after opposite() twice
C22_WitnessTwice ==
  /\ op = "DirectionCorner::opposite"
  /\ arg = "BottomRight"
  /\ given.val = "TopLeft"
  /\ res = "TopLeft"


C24_HitTestSameAsContains ==
  op = "LayoutRect::hit_test" =>
    (res # None <=> LayoutRect_contains(arg[1], arg[2]))


ShallowCopyOps == { t \o "_shallow_copy" : t \in AzTypes }

DeleteOps == { t \o "_delete" : t \in AzTypes }

ConsumingOps ==
  { c[1] : c \in AzConsumingConstructors } \cup { "az_ref_any_new", "az_app_run" }

\* C25: az_X_shallow_copy(h) returns a handle holding the address of h and
\* allocates nothing; az_X_delete and the calls that downcast a handle free
\* its allocation and leave every handle, the one passed included, holding
\* the address it held.
C25_CopiesAliasAndFreesKeepHandles ==
  [][ /\ op' \in ShallowCopyOps =>
           /\ heap' = heap
           /\ handles' = Append(handles, handles[arg'])
           /\ handles'[res'] = handles[arg']
      /\ op' \in DeleteOps =>
           /\ handles' = handles
           /\ ub' = "none" => heap'[handles'[arg']].freed
      /\ op' \in ConsumingOps =>
           /\ SubSeq(handles', 1, Len(handles)) = handles
           /\ ub' = "none" =>
                \A h \in (IF op' = "az_app_run" THEN { arg'[1], arg'[2] }
                          ELSE { arg' }) : heap'[handles'[h]].freed
    ]_vars

\* two handles hold one address and the allocation was freed through both:
\* new, shallow_copy, delete, delete
C25_Witness ==
  /\ ub = "double free"
  /\ op \in DeleteOps
  /\ \E h \in DOMAIN handles :
       /\ h # arg
       /\ handles[h] = handles[arg]
       /\ heap[handles[h]].freed

\* a handle whose allocation a constructor has consumed is passed again
C25_WitnessUseAfterFree ==
  /\ ub = "use after free"
  /\ op \in ConsumingOps


\* the rearrangements of a sequence
Rearranged(s) ==
  { [i \in DOMAIN s |-> s[p[i]]] :
      p \in { q \in [DOMAIN s -> DOMAIN s] :
                \A i, j \in DOMAIN s : q[i] = q[j] => i = j } }

\* C26: union returns the same rectangle for every permutation of a
\* non-empty sequence of rectangles of non-negative size.
C26_UnionOrderIndependent ==
  (op = "LayoutRect::union" /\ arg # << >>) =>
    \A t \in Rearranged(arg) : LayoutRect_union(t) = res


\* C27: get_scroll_rect(children) is None when children is empty, and
\* otherwise a rectangle that contains_rect the parent and every child.
C27_ScrollRectContainsAll ==
  op = "LayoutRect::get_scroll_rect" =>
    LET self     == arg[1]
        children == arg[2]
    IN  /\ children = << >> => res = None
        /\ children # << >> =>
             /\ res # None
             /\ LayoutRect_contains_rect(res[1], self)
             /\ \A i \in DOMAIN children :
                  LayoutRect_contains_rect(res[1], children[i])

\* no children: None although the parent exists
C27_WitnessNone ==
  /\ op = "LayoutRect::get_scroll_rect"
  /\ arg[2] = << >>
  /\ res = None


\* C28: two PixelValues with the same number and different metrics never
\* render to the same string: Px, Pt, Em and Percent render to four
\* distinct suffixes.
C28_RenderingIdentifiesMetric ==
  op = "PixelValue::fmt" =>
    \A metric \in SizeMetric \ { arg.metric } :
      PixelValue_fmt([metric |-> metric, number |-> arg.number]) # res


\* C30: no property type is both GPU-only and relayout-triggering:
\* is_gpu_only_property(t) implies can_trigger_relayout(t) = false.
C30_GpuOnlyNeverRelayouts ==
  /\ (op = "is_gpu_only_property" /\ res) => ~ can_trigger_relayout(arg)
  /\ (op = "can_trigger_relayout" /\ res) => ~ is_gpu_only_property(arg)


\* the direction with the given corners
FromTo(from, to) == [tag |-> "FromTo", from |-> from, to |-> to]

\* the corner pair the claim names for an angle of 0, 90, 180 or 270 degrees
NamedFromTo(degrees) ==
  CASE degrees = 0   -> FromTo("Bottom", "Top")
    [] degrees = 90  -> FromTo("Left", "Right")
    [] degrees = 180 -> FromTo("Top", "Bottom")
    [] degrees = 270 -> FromTo("Right", "Left")

(* C29: Direction::FromTo(from, to).to_points(rect) is (from.to_point(rect), *)
(* to.to_point(rect)) and is the same for a rectangle of the same size at    *)
(* any origin; for every rectangle of non-negative size Direction::Angle at  *)
(* 0, 90, 180 and 270 degrees returns the same pair of points as FromTo      *)
(* Bottom to Top, Left to Right, Top to Bottom and Right to Left, odd widths *)
(* and heights included.                                                     *)
C29_AngleAgreesWithFromTo ==
  op = "Direction::to_points" =>
    LET self == arg[1]
        rect == arg[2]
    IN  /\ self.tag = "FromTo" =>
             /\ res = << DirectionCorner_to_point(self.from, rect),
                         DirectionCorner_to_point(self.to, rect) >>
             /\ \A other \in DirectionRectInputs :
                  other.size = rect.size =>
                    Direction_to_points(self, other) = res
        /\ self.tag = "Angle" =>
             LET deg == AngleValue_to_degrees(self.angle)
             IN  \A degrees \in {0, 90, 180, 270} :
                   deg.n = degrees * deg.d /\ deg.pi = 0 =>
                     res = Direction_to_points(NamedFromTo(degrees), rect)

\* the same statement on rectangles of even width and height only
C29_EvenOnly ==
  (op = "Direction::to_points" /\ arg[2].size.width % 2 = 0
     /\ arg[2].size.height % 2 = 0) => C29_AngleAgreesWithFromTo

====
